---- MODULE Spec2Model ----
(***************************************************************************)
(* The two n8n nodes of n8n-nodes-stagehand.                               *)
(*                                                                         *)
(*   CdpTools.execute  fetches the accessibility tree of a page, builds a  *)
(*                     locator map for it, renumbers the tree's markers    *)
(*                     0..N-1 and returns the tree with the aligned list   *)
(*                     of locators.                                        *)
(*                                                                         *)
(*   Stagehand.execute runs one operation per input item against the     *)
(*                     browser; the agent operation runs an agent and,     *)
(*                     when asked, an extraction after it; the act         *)
(*                     operation runs its instructions, one per line.      *)
(*                                                                         *)
(* Text is a sequence of one-character strings.  The Stagehand library     *)
(* (init, observe, close) is the environment: every call may fail, and    *)
(* what it returns is chosen by the action that makes the call.            *)
(***************************************************************************)
EXTENDS Integers, Sequences, FiniteSets

VARIABLES
    nItems,     \* items.length
    pc,         \* position in CdpTools.execute
    i,          \* the item loop's index
    results,    \* the records pushed so far
    tree,       \* let tree
    nodesMap,   \* const nodesMap
    matches,    \* the matches the matchAll iterator has still to yield
    j,          \* let j
    offset,     \* let offset
    xpaths,     \* const xpaths
    output,     \* what execute returned to the caller
    error,      \* what execute threw
    fetched,    \* history: per item, the tree and map the renumbering started from
    faults,     \* history: the library calls that failed, per item
    \* Stagehand.execute
    items,            \* the input items' parameters
    nodePc,           \* position in Stagehand.execute
    item,             \* the item loop's index
    nodeResults,      \* the records pushed so far
    messages,         \* the log lines the logger collected for the item
    agentResult,      \* const agentResult
    screenshotPaths,  \* const screenshotPaths
    instructions,     \* const instructions (act)
    actResults,       \* const actResults
    nodeOutput,       \* what execute returned to the caller
    nodeError,        \* what execute threw
    calls             \* history: the library calls made, per item, in order

cdpVars == <<nItems, pc, i, results, tree, nodesMap, matches, j, offset,
             xpaths, output, error, fetched, faults>>

nodeVars == <<items, nodePc, item, nodeResults, messages, agentResult,
              screenshotPaths, instructions, actResults, nodeOutput,
              nodeError, calls>>

vars == <<cdpVars, nodeVars>>

\* ---------------------------------------------------------------- bounds

MaxPieces == 3
MaxItems == 2
MaxNodeItems == 1

\* ------------------------------------------------------------------ text

\* undefined: a value that is no text
Undefined == <<"undefined">>

Digits == {"0", "1", "2", "3", "4", "5", "6", "7", "8", "9"}

WhiteSpace == {" ", "\n", "\t"}

DigitChars == <<"0", "1", "2", "3", "4", "5", "6", "7", "8", "9">>

\* `${j}` : the decimal digits of a non-negative integer
RECURSIVE Decimal(_)
Decimal(n) ==
    IF n < 10 THEN <<DigitChars[n + 1]>>
    ELSE Decimal(n \div 10) \o <<DigitChars[(n % 10) + 1]>>

\* String.prototype.slice's index rule: negative counts from the end, clamped
SliceIndex(k, n) ==
    IF k < 0 THEN (IF n + k < 0 THEN 0 ELSE n + k)
    ELSE IF k > n THEN n ELSE k

\* s.slice(a, b), 0-based, b exclusive
Slice(s, a, b) ==
    LET from == SliceIndex(a, Len(s))
        to == SliceIndex(b, Len(s))
    IN IF from >= to THEN <<>> ELSE SubSeq(s, from + 1, to)

\* s.slice(a)
SliceFrom(s, a) == Slice(s, a, Len(s))

RECURSIVE TrimStart(_)
TrimStart(s) ==
    IF s # <<>> /\ Head(s) \in WhiteSpace THEN TrimStart(Tail(s)) ELSE s

RECURSIVE TrimEnd(_)
TrimEnd(s) ==
    IF s # <<>> /\ s[Len(s)] \in WhiteSpace
    THEN TrimEnd(SubSeq(s, 1, Len(s) - 1)) ELSE s

\* String.prototype.trim
Trim(s) == TrimEnd(TrimStart(s))

\* the character at (1-based) p, "" past the end of the text
CharAt(s, p) == IF p >= 1 /\ p <= Len(s) THEN s[p] ELSE ""

\* ------------------------------------------- /\[((?:\d+-)?\d+)\] /g

\* \d+ : the length of the run of digits that starts at (1-based) p
RECURSIVE DigitRun(_, _)
DigitRun(s, p) ==
    IF CharAt(s, p) \in Digits THEN 1 + DigitRun(s, p + 1) ELSE 0

\* /\[((?:\d+-)?\d+)\]/g : the space after ']' is not asked for
MatchLenAtNoSpace(s, p) ==
    IF CharAt(s, p) # "[" THEN 0
    ELSE LET d1 == DigitRun(s, p + 1)
             q == p + 1 + d1
         IN IF d1 = 0 THEN 0
            ELSE IF CharAt(s, q) = "-"
            THEN LET d2 == DigitRun(s, q + 1)
                     r == q + 1 + d2
                 IN IF d2 > 0 /\ CharAt(s, r) = "]" THEN r + 1 - p ELSE 0
            ELSE IF CharAt(s, q) = "]" THEN q + 1 - p ELSE 0

\* /\[((?:\d+-)?\d*)\] /g : the last run of digits may be empty
MatchLenAtEmptyDigits(s, p) ==
    IF CharAt(s, p) # "[" THEN 0
    ELSE LET d1 == DigitRun(s, p + 1)
             q == p + 1 + d1
         IN IF d1 > 0 /\ CharAt(s, q) = "-"
            THEN LET d2 == DigitRun(s, q + 1)
                     r == q + 1 + d2
                 IN IF CharAt(s, r) = "]" /\ CharAt(s, r + 1) = " "
                    THEN r + 2 - p ELSE 0
            ELSE IF CharAt(s, q) = "]" /\ CharAt(s, q + 1) = " "
                 THEN q + 2 - p ELSE 0

\* The length of the regular expression's match at (1-based) p, 0 for none.
\* The scan is the backtracking matcher's: a shorter \d+ is followed by a
\* digit, never by '-' or ']', so only the longest run can lead to a match.
MatchLenAt(s, p) ==
    IF CharAt(s, p) # "[" THEN 0
    ELSE LET d1 == DigitRun(s, p + 1)
             q == p + 1 + d1
         IN IF d1 = 0 THEN 0
            ELSE IF CharAt(s, q) = "-"
            THEN LET d2 == DigitRun(s, q + 1)
                     r == q + 1 + d2
                 IN IF d2 > 0 /\ CharAt(s, r) = "]" /\ CharAt(s, r + 1) = " "
                    THEN r + 2 - p ELSE 0
            ELSE IF CharAt(s, q) = "]" /\ CharAt(s, q + 1) = " "
                 THEN q + 2 - p ELSE 0

\* the capture group of a match's text: what stands between '[' and ']'
Group1(text) ==
    LET close == CHOOSE k \in 1..Len(text) :
                     text[k] = "]" /\ \A m \in 1..(k - 1) : text[m] # "]"
    IN SubSeq(text, 2, close - 1)

\* One match: match.index, match[0] and match[1]
Match(s, p, len) ==
    [index |-> p - 1,
     text |-> SubSeq(s, p, p + len - 1),
     id |-> Group1(SubSeq(s, p, p + len - 1))]

RECURSIVE MatchAllFrom(_, _)
MatchAllFrom(s, p) ==
    IF p > Len(s) THEN <<>>
    ELSE LET len == MatchLenAt(s, p)
         IN IF len = 0 THEN MatchAllFrom(s, p + 1)
            ELSE <<Match(s, p, len)>> \o MatchAllFrom(s, p + len)

\* s.matchAll(re): the non-overlapping matches, left to right
MatchAll(s) == MatchAllFrom(s, 1)

\* ------------------------------------------------------ the page texts

Marker(id) == <<"[">> \o id \o <<"]", " ">>

RECURSIVE Repeat(_, _)
Repeat(s, n) == IF n = 0 THEN <<>> ELSE s \o Repeat(s, n - 1)

\* ten markers in a row: the next marker is renumbered with two digits
TenMarkers == Repeat(Marker(<<"3">>), 10)

Pieces ==
    { <<"[">>, <<"]">>, <<" ">>, <<"5">>, <<"a">>,
      Marker(<<"5">>), Marker(<<"1", "2">>), Marker(<<"7", "-", "1", "5">>),
      Marker(<<"a">>), Marker(<<>>), Marker(<<"-", "1">>),
      Marker(<<"1", "-">>), Marker(<<"1", "-", "2", "-", "3">>) }

\* the texts made of at most k pieces
RECURSIVE Texts(_)
Texts(k) ==
    IF k = 0 THEN {<<>>}
    ELSE LET shorter == Texts(k - 1)
         IN shorter \cup {t \o p : t \in shorter, p \in Pieces}

\* texts of more than ten markers: a piece or none, ten markers, a piece or none
LongTexts == {a \o TenMarkers \o b : a \in Texts(1), b \in Texts(1)}

MarkerPieces ==
    {Marker(<<"5">>), Marker(<<"1", "2">>), Marker(<<"7", "-", "1", "5">>)}

\* three markers and a word
MarkerLists ==
    {a \o b \o c \o <<"a">> : a \in MarkerPieces, b \in MarkerPieces,
                                c \in MarkerPieces}

AllTexts == Texts(MaxPieces) \cup LongTexts \cup MarkerLists

SampleTexts ==
    { <<>>,
      <<" ">> \o Marker(<<"7", "-", "1", "5">>) \o <<"a">> \o Marker(<<"5">>),
      Marker(<<"1", "2">>) \o <<"a">> \o Marker(<<"7", "-", "1", "5">>)
          \o <<"b">> \o Marker(<<"5">>) \o <<"c">>,
      Marker(<<"7", "-", "1", "5">>) \o <<"x">>
          \o Marker(<<"7", "-", "1", "5">>) \o <<"y">>,
      TenMarkers \o Marker(<<"5">>) \o <<"z">>,
      <<"[", "5", "]", "a">> \o Marker(<<"a">>)
          \o Marker(<<"1", "-", "2", "-", "3">>) \o <<"b">> }

\* ---------------------------------------------- the library's failures

Err(fn, call) == [fn |-> fn, call |-> call]

TypeError == [fn |-> "getAccessibilityTree", call |-> "TypeError"]

NoError == [fn |-> "none", call |-> "none"]

\* ------------------------------------------------ getAccessibilityTree

\* What createChatCompletion captured of options.messages[1].content, as
\* prompt.toString().split('Accessibility Tree: \n') cuts it: undefined when
\* observe failed before it called the model client, one part when the
\* separator is missing, else the text before it and the text after it.
Prompts ==
    {<<"undefined">>, <<"parts", <<"h">>>>}
        \cup {<<"parts", <<"h">>, body>> : body \in SampleTexts}

\* [threw, value, failed]: the error thrown (NoError for none), the value
\* returned, and the library calls that failed on the way
getAccessibilityTree(initOk, prompt, closeOk) ==
    IF ~initOk
    THEN [threw |-> Err("getAccessibilityTree", "init"), value |-> <<>>,
          failed |-> {Err("getAccessibilityTree", "init")}]
    ELSE LET observeFailed ==
                 IF prompt[1] = "undefined"
                 THEN {Err("getAccessibilityTree", "observe")} ELSE {}
         IN IF ~closeOk
            THEN [threw |-> Err("getAccessibilityTree", "close"), value |-> <<>>,
                  failed |-> observeFailed
                                 \cup {Err("getAccessibilityTree", "close")}]
            ELSE IF prompt[1] = "undefined" \/ Len(prompt) < 3
            THEN [threw |-> TypeError, value |-> <<>>, failed |-> observeFailed]
            ELSE [threw |-> NoError, value |-> Trim(prompt[3]),
                  failed |-> observeFailed]

\* ---------------------------------------------------------- getNodesMap

HasHyphen(id) == \E k \in 1..Len(id) : id[k] = "-"

\* .filter((match) => !match[1].includes('-'))
KeepMatchBare(m) == ~HasHyphen(m.id)

\* .filter((match) => match[1].includes('-'))
KeepMatch(m) == HasHyphen(m.id)

\* the stub model client's answer: data.elements
RECURSIVE Elements(_)
Elements(ms) ==
    IF ms = <<>> THEN <<>>
    ELSE (IF KeepMatch(Head(ms))
          THEN <<[elementId |-> Head(ms).id, description |-> Head(ms).id]>>
          ELSE <<>>) \o Elements(Tail(ms))

createChatCompletion(t) == Elements(MatchAll(t))

\* the locator the library resolves an element id to
Selector(id) == <<"xpath=">> \o id

\* stagehand.observe('x'): one result per proposed element the library
\* resolves, in the order proposed
RECURSIVE Observe(_, _)
Observe(elements, resolved) ==
    IF elements = <<>> THEN <<>>
    ELSE (IF Head(elements).elementId \in resolved
          THEN <<[description |-> Head(elements).description,
                  selector |-> Selector(Head(elements).elementId)]>>
          ELSE <<>>) \o Observe(Tail(elements), resolved)

EmptyMap == [k \in {} |-> Undefined]

\* acc[result.description] = result.selector
RECURSIVE Reduce(_, _)
Reduce(rs, acc) ==
    IF rs = <<>> THEN acc
    ELSE Reduce(Tail(rs),
                [k \in DOMAIN acc \cup {Head(rs).description} |->
                    IF k = Head(rs).description THEN Head(rs).selector
                    ELSE acc[k]])

\* the element ids the stub model client proposes for a tree
ProposedIds(t) ==
    LET es == createChatCompletion(t)
    IN {es[k].elementId : k \in 1..Len(es)}

\* the ways stagehand.observe('x') can end: "fail", or the set of proposed
\* element ids it resolved
Observations(t) == {<<"fail">>} \cup {<<"ok", r>> : r \in SUBSET ProposedIds(t)}

\* [threw, value, failed, built]; built: the value is the reduce's
getNodesMap(t, initOk, observed, close1Ok, close2Ok) ==
    IF ~initOk
    THEN [threw |-> Err("getNodesMap", "init"), value |-> EmptyMap,
          failed |-> {Err("getNodesMap", "init")}, built |-> FALSE]
    ELSE IF observed[1] = "fail"
    THEN \* catch {} finally { close } return {}
         IF ~close2Ok
         THEN [threw |-> Err("getNodesMap", "close"), value |-> EmptyMap,
               failed |-> {Err("getNodesMap", "observe"),
                           Err("getNodesMap", "close")}, built |-> FALSE]
         ELSE [threw |-> NoError, value |-> EmptyMap,
               failed |-> {Err("getNodesMap", "observe")}, built |-> FALSE]
    ELSE IF ~close1Ok
    THEN \* the close in the try block throws: catch {} finally { close }
         IF ~close2Ok
         THEN [threw |-> Err("getNodesMap", "close"), value |-> EmptyMap,
               failed |-> {Err("getNodesMap", "tryClose"),
                           Err("getNodesMap", "close")}, built |-> FALSE]
         ELSE [threw |-> NoError, value |-> EmptyMap,
               failed |-> {Err("getNodesMap", "tryClose")}, built |-> FALSE]
    ELSE IF ~close2Ok
    THEN \* the finally block's close throws over the return
         [threw |-> Err("getNodesMap", "close"), value |-> EmptyMap,
          failed |-> {Err("getNodesMap", "close")}, built |-> FALSE]
    ELSE [threw |-> NoError,
          value |-> Reduce(Observe(createChatCompletion(t), observed[2]),
                           EmptyMap),
          failed |-> {}, built |-> TRUE]

\* ------------------------------------------------- the renumbering loop

\* nodesMap[match[1]]
Lookup(map, key) == IF key \in DOMAIN map THEN map[key] ELSE Undefined

\* `[${j}]` : the replacement without its space
ReplaceNoSpace(n) == <<"[">> \o Decimal(n) \o <<"]">>

\* `[${j}] `
Replace(n) == <<"[">> \o Decimal(n) \o <<"]", " ">>

\* offset = replace.length - match[0].length : the last delta only
NextOffsetLastDelta(off, replace, match) == Len(replace) - Len(match.text)

\* offset += replace.length - match[0].length
NextOffset(off, replace, match) == off + Len(replace) - Len(match.text)

\* the loop's body with the locator looked up under the new number
StepLookupNew(st, match) ==
    LET before == Slice(st.tree, 0, match.index + st.offset)
        after == SliceFrom(st.tree, match.index + Len(match.text) + st.offset)
        replace == Replace(st.j)
    IN [tree |-> before \o replace \o after,
        offset |-> NextOffset(st.offset, replace, match),
        xpaths |-> Append(st.xpaths, Lookup(st.nodesMap, Decimal(st.j))),
        j |-> st.j + 1,
        nodesMap |-> st.nodesMap]

\* one pass of the body of for (const match of matches)
Step(st, match) ==
    LET before == Slice(st.tree, 0, match.index + st.offset)
        after == SliceFrom(st.tree, match.index + Len(match.text) + st.offset)
        replace == Replace(st.j)
    IN [tree |-> before \o replace \o after,
        offset |-> NextOffset(st.offset, replace, match),
        xpaths |-> Append(st.xpaths, Lookup(st.nodesMap, match.id)),
        j |-> st.j + 1,
        nodesMap |-> st.nodesMap]

\* j declared outside the item loop: it keeps counting across items
LoopStartKeepJ(t, map) ==
    [tree |-> t, offset |-> 0, xpaths |-> <<>>, j |-> j, nodesMap |-> map]

\* let j = 0; let offset = 0; const xpaths = [];
LoopStart(t, map) ==
    [tree |-> t, offset |-> 0, xpaths |-> <<>>, j |-> 0, nodesMap |-> map]

RECURSIVE Loop(_, _)
Loop(st, ms) == IF ms = <<>> THEN st ELSE Loop(Step(st, Head(ms)), Tail(ms))

\* lines 51-64 as a function of the tree and the map
Renumber(t, map) == Loop(LoopStart(t, map), MatchAll(t))

\* the record pushed for an item
Record(t, xs) == [accessibilityTree |-> t, xpaths |-> xs]

\* ------------------------------------------------------ CdpTools.execute

NotReturned == <<"nothing">>

\* no agent has run for the item
NoAgentResult == [success |-> FALSE, completed |-> FALSE, actions |-> <<>>,
                  message |-> "none"]

\* the error caught around the loop, the records built so far returned
ThrowReturnsPartial(err) ==
    /\ pc' = "thrown"
    /\ error' = err
    /\ output' = <<results>>

\* an error leaves execute: nothing is returned
Throw(err) ==
    /\ pc' = "thrown"
    /\ error' = err
    /\ output' = NotReturned

\* Stagehand.execute is not running
NodeIdle ==
    /\ items = <<>>
    /\ nodePc = "idle"
    /\ item = 0
    /\ nodeResults = <<>>
    /\ messages = <<>>
    /\ agentResult = NoAgentResult
    /\ screenshotPaths = <<>>
    /\ instructions = <<>>
    /\ actResults = <<>>
    /\ nodeOutput = NotReturned
    /\ nodeError = NoError
    /\ calls = <<>>

Init ==
    /\ nItems \in 0..MaxItems
    /\ pc = "loop"
    /\ i = 0
    /\ results = <<>>
    /\ tree = <<>>
    /\ nodesMap = EmptyMap
    /\ matches = <<>>
    /\ j = 0
    /\ offset = 0
    /\ xpaths = <<>>
    /\ output = NotReturned
    /\ error = NoError
    /\ fetched = <<>>
    /\ faults = {}
    /\ NodeIdle

\* One item whose tree and locator map have been fetched without a failure,
\* at the start of the renumbering loop: the tree is any page text of at
\* most MaxPieces pieces, trimmed, and the map is getNodesMap's for it.
InitTrees ==
    /\ nItems = 1
    /\ pc = "renumber"
    /\ i = 0
    /\ results = <<>>
    /\ \E body \in AllTexts :
           \E observed \in Observations(Trim(body)) \ {<<"fail">>} :
               LET t == Trim(body)
                   r == getNodesMap(t, TRUE, observed, TRUE, TRUE)
               IN /\ tree = t
                  /\ nodesMap = r.value
                  /\ matches = MatchAll(t)
                  /\ j = LoopStart(t, r.value).j
                  /\ offset = LoopStart(t, r.value).offset
                  /\ xpaths = LoopStart(t, r.value).xpaths
                  /\ fetched = <<[tree |-> t, nodesMap |-> r.value,
                                  built |-> r.built, resolved |-> observed[2]]>>
    /\ output = NotReturned
    /\ error = NoError
    /\ faults = {}
    /\ NodeIdle

Faults(failed) == {[item |-> i, fn |-> f.fn, call |-> f.call] : f \in failed}

\* line 49: let tree = await getAccessibilityTree(cdpUrl)
GetAccessibilityTree ==
    /\ pc = "loop"
    /\ i < nItems
    /\ \E initOk \in BOOLEAN, prompt \in Prompts, closeOk \in BOOLEAN :
        LET r == getAccessibilityTree(initOk, prompt, closeOk)
        IN /\ faults' = faults \cup Faults(r.failed)
           /\ IF r.threw # NoError
              THEN /\ Throw(r.threw)
                   /\ UNCHANGED tree
              ELSE /\ tree' = r.value
                   /\ pc' = "map"
                   /\ UNCHANGED <<error, output>>
    /\ UNCHANGED <<nItems, i, results, nodesMap, matches, j, offset,
                   xpaths, fetched>>
    /\ UNCHANGED nodeVars

\* lines 50-55: the locator map, the match iterator, the loop's variables
GetNodesMap ==
    /\ pc = "map"
    /\ \E initOk \in BOOLEAN, observed \in Observations(tree),
          close1Ok \in BOOLEAN, close2Ok \in BOOLEAN :
        LET r == getNodesMap(tree, initOk, observed, close1Ok, close2Ok)
        IN /\ faults' = faults \cup Faults(r.failed)
           /\ IF r.threw # NoError
              THEN /\ Throw(r.threw)
                   /\ UNCHANGED <<nodesMap, matches, j, offset, xpaths, fetched>>
              ELSE /\ nodesMap' = r.value
                   /\ matches' = MatchAll(tree)
                   /\ j' = LoopStart(tree, r.value).j
                   /\ offset' = LoopStart(tree, r.value).offset
                   /\ xpaths' = LoopStart(tree, r.value).xpaths
                   /\ fetched' = Append(fetched,
                                        [tree |-> tree, nodesMap |-> r.value,
                                         built |-> r.built,
                                         resolved |-> IF observed[1] = "ok"
                                                      THEN observed[2] ELSE {}])
                   /\ pc' = "renumber"
                   /\ UNCHANGED <<error, output>>
    /\ UNCHANGED <<nItems, i, results, tree>>
    /\ UNCHANGED nodeVars

\* lines 56-64: one pass of the loop's body
RenumberStep ==
    /\ pc = "renumber"
    /\ matches # <<>>
    /\ LET st == Step([tree |-> tree, offset |-> offset, xpaths |-> xpaths,
                       j |-> j, nodesMap |-> nodesMap], Head(matches))
       IN /\ tree' = st.tree
          /\ offset' = st.offset
          /\ xpaths' = st.xpaths
          /\ j' = st.j
    /\ matches' = Tail(matches)
    /\ UNCHANGED <<nItems, pc, i, results, nodesMap, output, error,
                   fetched, faults>>
    /\ UNCHANGED nodeVars

\* lines 66-73 and the i++ of line 46
PushResult ==
    /\ pc = "renumber"
    /\ matches = <<>>
    /\ results' = Append(results, Record(tree, xpaths))
    /\ i' = i + 1
    /\ pc' = "loop"
    /\ UNCHANGED <<nItems, tree, nodesMap, matches, j, offset, xpaths,
                   output, error, fetched, faults>>
    /\ UNCHANGED nodeVars

\* line 76: return [results]
Return ==
    /\ pc = "loop"
    /\ i >= nItems
    /\ output' = <<results>>
    /\ pc' = "returned"
    /\ UNCHANGED <<nItems, i, results, tree, nodesMap, matches, j,
                   offset, xpaths, error, fetched, faults>>
    /\ UNCHANGED nodeVars

Next ==
    \/ GetAccessibilityTree
    \/ GetNodesMap
    \/ RenumberStep
    \/ PushResult
    \/ Return

Spec == Init /\ [][Next]_vars

\* the renumbering of one fetched tree
NextTrees ==
    \/ RenumberStep
    \/ PushResult
    \/ Return

SpecTrees == InitTrees /\ [][NextTrees]_vars

\* -------------------------------------------- Stagehand.execute: values

\* null
Null == <<"null">>

\* a field the output record does not have
Absent == <<"absent">>

NoUsage == <<>>

\* a LogLine; usage is <<prompt_tokens, completion_tokens, total_tokens>> of
\* the parsed auxiliary.response.value, NoUsage when it has none
LogLine(category, message, usage) ==
    [category |-> category, message |-> message, usage |-> usage]

\* the log lines one agent.execute may emit
AgentLogs ==
    { <<>>,
      <<LogLine("aisdk", "response", <<3, 2, 5>>)>>,
      <<LogLine("cache", "agent cache hit", NoUsage)>>,
      <<LogLine("cache", "cache hit", NoUsage),
        LogLine("aisdk", "response", <<0, 0, 0>>)>>,
      <<LogLine("cache", "agent cache hit", NoUsage),
        LogLine("selfheal", "self-heal: retrying", NoUsage),
        LogLine("aisdk", "response", <<3, 2, 5>>)>>,
      <<LogLine("cache", "cache miss", NoUsage),
        LogLine("aisdk", "response", <<3, 2, 5>>)>> }

\* the log lines one stagehand.extract may emit
ExtractLogs == {<<>>, <<LogLine("aisdk", "response", <<4, 1, 5>>)>>}

AgentAction(type, result) == [type |-> type, result |-> result]

\* what agent.execute may resolve to
AgentResults ==
    { [success |-> TRUE, completed |-> TRUE, message |-> "done",
       actions |-> <<AgentAction("act", Null)>>],
      [success |-> TRUE, completed |-> TRUE, message |-> "done",
       actions |-> <<AgentAction("act", Null),
                     AgentAction("extract", <<"data", "by agent">>)>>],
      [success |-> FALSE, completed |-> FALSE, message |-> "failed",
       actions |-> <<>>],
      [success |-> FALSE, completed |-> FALSE, message |-> "failed",
       actions |-> <<AgentAction("act", Null), AgentAction("extract", Null)>>],
      [success |-> FALSE, completed |-> TRUE, message |-> "stopped",
       actions |-> <<AgentAction("act", Null)>>] }

\* what stagehand.extract may resolve to
ExtractValues == {Null, <<"data", "extracted">>}

\* the Instructions texts of the act items: no line, one line, lines to be
\* trimmed, blank lines, the same two lines in both orders, a line twice
ActTexts ==
    { <<>>,
      <<"a">>,
      <<"a", "\n", "b">>,
      <<"b", "\n", "a">>,
      <<" ", "a", " ", "\n", "\n", "\t", "\n", "b", "\t">>,
      <<" ", "\n", "\n">>,
      <<"a", "\n", "b", "\n", "a">> }

\* what one stagehand.act may resolve to, with the log lines it emits: a
\* replay that logs nothing, a replay that logs a usage of no tokens, and a
\* run of the model
ActOutcomes ==
    { [result |-> <<"acted", "replayed">>, logs |-> <<>>],
      [result |-> <<"acted", "cached">>,
       logs |-> <<LogLine("cache", "cache hit", NoUsage),
                  LogLine("aisdk", "response", <<0, 0, 0>>)>>],
      [result |-> <<"acted", "by model">>,
       logs |-> <<LogLine("aisdk", "response", <<3, 2, 5>>)>>] }

\* the parameters of one input item: the agent items, whose Instructions are
\* one text, and the act items
ItemParams ==
    [operation : {"agent"},
     pageUrl : {"", "url"},
     extractAfterAgent : BOOLEAN,
     takeScreenshots : BOOLEAN,
     instructions : {<<"a">>}]
    \cup
    [operation : {"act"},
     pageUrl : {"url"},
     extractAfterAgent : {FALSE},
     takeScreenshots : BOOLEAN,
     instructions : ActTexts]

\* ------------------------------------------- Stagehand.execute: helpers

\* s.split('\n'): the pieces between the line feeds, one piece for a text
\* without any
RECURSIVE Split(_)
Split(s) ==
    IF \E k \in 1..Len(s) : s[k] = "\n"
    THEN LET at == CHOOSE k \in 1..Len(s) :
                       s[k] = "\n" /\ \A m \in 1..(k - 1) : s[m] # "\n"
         IN <<SubSeq(s, 1, at - 1)>> \o Split(SubSeq(s, at + 1, Len(s)))
    ELSE <<s>>

\* .map(s => s.trim())
RECURSIVE MapTrim(_)
MapTrim(ls) ==
    IF ls = <<>> THEN <<>> ELSE <<Trim(Head(ls))>> \o MapTrim(Tail(ls))

\* .filter(s => s.length > 0)
RECURSIVE FilterNonEmpty(_)
FilterNonEmpty(ls) ==
    IF ls = <<>> THEN <<>>
    ELSE (IF Len(Head(ls)) > 0 THEN <<Head(ls)>> ELSE <<>>)
             \o FilterNonEmpty(Tail(ls))

\* the lines trimmed, the blank ones kept
InstructionLinesKeepBlank(instructionsRaw) == MapTrim(Split(instructionsRaw))

\* line 666: the instructions of an act item
InstructionLines(instructionsRaw) ==
    FilterNonEmpty(MapTrim(Split(instructionsRaw)))

RECURSIVE SumUsage(_, _)
SumUsage(msgs, k) ==
    IF msgs = <<>> THEN 0
    ELSE (IF Head(msgs).category = "aisdk" /\ Head(msgs).usage # NoUsage
          THEN Head(msgs).usage[k] ELSE 0) + SumUsage(Tail(msgs), k)

\* { prompt_tokens, completion_tokens, total_tokens } of the aisdk lines that
\* carry a usage, null when there is none
extractUsageFromMessages(msgs) ==
    IF \E k \in 1..Len(msgs) :
           msgs[k].category = "aisdk" /\ msgs[k].usage # NoUsage
    THEN <<"usage", SumUsage(msgs, 1), SumUsage(msgs, 2), SumUsage(msgs, 3)>>
    ELSE Null

detectCacheHit(msgs) ==
    \E k \in 1..Len(msgs) :
        /\ msgs[k].category = "cache"
        /\ msgs[k].message \in {"agent cache hit", "cache hit"}

\* message.toLowerCase().includes('self-heal'), for the messages of the model
MentionsSelfHeal(message) == message \in {"self-heal: retrying"}

detectSelfHealUsed(msgs) ==
    \E k \in 1..Len(msgs) :
        \/ msgs[k].category = "selfheal"
        \/ MentionsSelfHeal(msgs[k].message)

\* agentResult.actions.find((a) => a.type === 'extract')
FindExtract(actions) ==
    IF \E k \in 1..Len(actions) : actions[k].type = "extract"
    THEN LET first == CHOOSE k \in 1..Len(actions) :
                          /\ actions[k].type = "extract"
                          /\ \A m \in 1..(k - 1) : actions[m].type # "extract"
         IN <<"found", actions[first]>>
    ELSE <<"none">>

\* lines 832-845: the extract result of a discovery run, from the agent's own
\* actions or, for want of an extract action, from its message
DiscoveryExtractResult(result) ==
    LET found == FindExtract(result.actions)
    IN IF found[1] = "found"
       THEN (IF found[2].result # Null THEN found[2].result
             ELSE <<"action", found[2].type>>)
       ELSE <<"data", result.message>>

\* whether the post-extract call is made (line 821)
RunsPostExtract(extractAfterAgent, isCacheHit) == extractAfterAgent /\ isCacheHit

RECURSIVE ActionTypes(_)
ActionTypes(actions) ==
    IF actions = <<>> THEN <<>>
    ELSE <<Head(actions).type>> \o ActionTypes(Tail(actions))

\* the record pushed for an agent item (lines 849-879; mode, cacheDir,
\* currentUrl and messages are not modelled)
AgentRecord(params, result, msgs, shots, extractResult, extractUsage) ==
    LET effectiveSuccess ==
            result.success \/ (params.extractAfterAgent /\ extractResult # Null)
    IN [error |-> NoError,
        json |-> [operation |-> params.operation,
                  success |-> effectiveSuccess,
                  message |-> result.message,
                  completed |-> (result.completed \/ effectiveSuccess),
                  actions |-> ActionTypes(result.actions),
                  actionCount |-> Len(result.actions),
                  cacheHit |-> detectCacheHit(msgs),
                  selfHealUsed |-> detectSelfHealUsed(msgs),
                  extractResult |-> IF extractResult # Null
                                    THEN extractResult ELSE Absent,
                  extractUsage |-> IF extractResult # Null
                                   THEN extractUsage ELSE Absent,
                  usage |-> extractUsageFromMessages(msgs),
                  screenshots |-> IF shots # <<>> THEN shots ELSE Absent]]

\* true and false as values of an output field that may also hold null
JsBool(b) == IF b THEN <<"true">> ELSE <<"false">>

\* line 678: actUsage && actUsage.total_tokens === 0
ActCacheHit(actUsage) ==
    IF actUsage = Null THEN Null ELSE JsBool(actUsage[4] = 0)

\* { instruction, result }
ActResult(instruction, result) ==
    [instruction |-> instruction, result |-> result]

\* the record pushed for an act item (lines 680-690; cacheDir, currentUrl and
\* messages are not modelled)
ActRecord(params, actRes, msgs) ==
    LET actUsage == extractUsageFromMessages(msgs)
    IN [error |-> NoError,
        json |-> [operation |-> params.operation,
                  results |-> actRes,
                  cacheHit |-> ActCacheHit(actUsage),
                  usage |-> actUsage]]

\* the record the catch block pushes (lines 887-896)
ErrorRecord(params, err) ==
    [error |-> err, json |-> [operation |-> params.operation]]

Call(name) == [item |-> item, call |-> name]

\* stagehand.act(instruction) is called
ActCalled(instruction) ==
    [item |-> item, call |-> "act", instruction |-> instruction]

\* the promise of stagehand.act settles: result is what it resolved to, or
\* <<"rejected">>
ActSettled(result) == [item |-> item, call |-> "act.settled", result |-> result]

\* an error leaves execute: nothing is returned
NodeThrow(err) ==
    /\ nodePc' = "thrown"
    /\ nodeError' = err
    /\ nodeOutput' = NotReturned

\* catch (error): an error record for the item, then the finally block
Catch(err) ==
    /\ nodeResults' = Append(nodeResults, ErrorRecord(items[item + 1], err))
    /\ nodePc' = "finally"

\* ------------------------------------------ Stagehand.execute: actions

InitNode ==
    /\ items \in UNION {[1..n -> ItemParams] : n \in 0..MaxNodeItems}
    /\ nodePc = "loop"
    /\ item = 0
    /\ nodeResults = <<>>
    /\ messages = <<>>
    /\ agentResult = NoAgentResult
    /\ screenshotPaths = <<>>
    /\ instructions = <<>>
    /\ actResults = <<>>
    /\ nodeOutput = NotReturned
    /\ nodeError = NoError
    /\ calls = <<>>
    \* CdpTools.execute is not running
    /\ nItems = 0
    /\ pc = "idle"
    /\ i = 0
    /\ results = <<>>
    /\ tree = <<>>
    /\ nodesMap = EmptyMap
    /\ matches = <<>>
    /\ j = 0
    /\ offset = 0
    /\ xpaths = <<>>
    /\ output = NotReturned
    /\ error = NoError
    /\ fetched = <<>>
    /\ faults = {}

\* lines 594-660: a fresh logger, stagehand.init, page.goto
StartItem ==
    /\ nodePc = "loop"
    /\ item < Len(items)
    /\ messages' = <<>>
    /\ \E initOk \in BOOLEAN, gotoOk \in BOOLEAN :
        LET params == items[item + 1]
        IN IF ~initOk
           THEN /\ calls' = Append(calls, Call("init"))
                /\ NodeThrow(Err("Stagehand", "init"))
           ELSE IF params.pageUrl = ""
           THEN /\ calls' = Append(calls, Call("init"))
                /\ nodePc' = params.operation
                /\ UNCHANGED <<nodeError, nodeOutput>>
           ELSE /\ calls' = calls \o <<Call("init"), Call("goto")>>
                /\ IF gotoOk
                   THEN /\ nodePc' = params.operation
                        /\ UNCHANGED <<nodeError, nodeOutput>>
                   ELSE NodeThrow(Err("Stagehand", "goto"))
    /\ UNCHANGED <<items, item, nodeResults, agentResult, screenshotPaths,
                   instructions, actResults>>
    /\ UNCHANGED cdpVars

\* lines 758-795: the extract schema, then agent.execute
AgentExecute ==
    /\ nodePc = "agent"
    /\ \E schemaOk \in BOOLEAN,
          run \in {<<"fail">>}
                      \cup {<<"ok", r, logs>> : r \in AgentResults, logs \in AgentLogs} :
        LET params == items[item + 1]
        IN IF params.extractAfterAgent /\ ~schemaOk
           THEN /\ Catch(Err("Stagehand", "schema"))
                /\ UNCHANGED <<calls, messages, agentResult>>
           ELSE /\ calls' = Append(calls, Call("agent.execute"))
                /\ IF run[1] = "fail"
                   THEN /\ Catch(Err("Stagehand", "agent.execute"))
                        /\ UNCHANGED <<messages, agentResult>>
                   ELSE /\ agentResult' = run[2]
                        /\ messages' = messages \o run[3]
                        /\ nodePc' = "screenshot"
                        /\ UNCHANGED nodeResults
    /\ UNCHANGED <<items, item, screenshotPaths, instructions, actResults,
                   nodeOutput, nodeError>>
    /\ UNCHANGED cdpVars

\* lines 797-804: the final screenshot
AgentScreenshot ==
    /\ nodePc = "screenshot"
    /\ IF items[item + 1].takeScreenshots
       THEN /\ calls' = Append(calls, Call("screenshot"))
            /\ \E ok \in BOOLEAN :
                   IF ok
                   THEN /\ screenshotPaths' = <<"agent-final">>
                        /\ nodePc' = "extract"
                        /\ UNCHANGED nodeResults
                   ELSE /\ Catch(Err("Stagehand", "screenshot"))
                        /\ UNCHANGED screenshotPaths
       ELSE /\ screenshotPaths' = <<>>
            /\ nodePc' = "extract"
            /\ UNCHANGED <<calls, nodeResults>>
    /\ UNCHANGED <<items, item, messages, agentResult, instructions,
                   actResults, nodeOutput, nodeError>>
    /\ UNCHANGED cdpVars

\* lines 806-881: usage and cache hit, the extraction, the item's record
AgentExtract ==
    /\ nodePc = "extract"
    /\ LET params == items[item + 1]
           isCacheHit == detectCacheHit(messages)
       IN IF RunsPostExtract(params.extractAfterAgent, isCacheHit)
          THEN \* replay: stagehand.extract(extractInstr, extractSchema)
               /\ calls' = Append(calls, Call("extract"))
               /\ \E got \in {<<"fail">>}
                                 \cup {<<"ok", v, logs>> : v \in ExtractValues,
                                                          logs \in ExtractLogs} :
                      IF got[1] = "fail"
                      THEN /\ Catch(Err("Stagehand", "extract"))
                           /\ UNCHANGED messages
                      ELSE /\ messages' = messages \o got[3]
                           /\ nodeResults' =
                                  Append(nodeResults,
                                         AgentRecord(params, agentResult,
                                                     messages \o got[3],
                                                     screenshotPaths, got[2],
                                                     extractUsageFromMessages(got[3])))
                           /\ nodePc' = "finally"
          ELSE /\ nodeResults' =
                      Append(nodeResults,
                             AgentRecord(params, agentResult, messages,
                                         screenshotPaths,
                                         IF params.extractAfterAgent
                                         THEN DiscoveryExtractResult(agentResult)
                                         ELSE Null,
                                         Null))
               /\ nodePc' = "finally"
               /\ UNCHANGED <<calls, messages>>
    /\ UNCHANGED <<items, item, agentResult, screenshotPaths, instructions,
                   actResults, nodeOutput, nodeError>>
    /\ UNCHANGED cdpVars

\* lines 665-668: the instructions of the act item, no result yet
ActInstructions ==
    /\ nodePc = "act"
    /\ instructions' = InstructionLines(items[item + 1].instructions)
    /\ actResults' = <<>>
    /\ nodePc' = "actLoop"
    /\ UNCHANGED <<items, item, nodeResults, messages, agentResult,
                   screenshotPaths, nodeOutput, nodeError, calls>>
    /\ UNCHANGED cdpVars

\* lines 669-672: the loop takes the next instruction and calls stagehand.act;
\* every pass pushes one result, so the next instruction is the one after
\* the results so far
ActCall ==
    /\ nodePc = "actLoop"
    /\ Len(actResults) < Len(instructions)
    /\ calls' = Append(calls, ActCalled(instructions[Len(actResults) + 1]))
    /\ nodePc' = "acting"
    /\ UNCHANGED <<items, item, nodeResults, messages, agentResult,
                   screenshotPaths, instructions, actResults, nodeOutput,
                   nodeError>>
    /\ UNCHANGED cdpVars

\* lines 672-673: await stagehand.act(instruction) settles
ActAwait ==
    /\ nodePc = "acting"
    /\ \E got \in {<<"rejected">>} \cup {<<"ok", o>> : o \in ActOutcomes} :
           IF got[1] = "rejected"
           THEN /\ calls' = Append(calls, ActSettled(<<"rejected">>))
                /\ Catch(Err("Stagehand", "act"))
                /\ UNCHANGED <<messages, actResults>>
           ELSE /\ calls' = Append(calls, ActSettled(got[2].result))
                /\ messages' = messages \o got[2].logs
                /\ actResults' =
                       Append(actResults,
                              ActResult(instructions[Len(actResults) + 1],
                                        got[2].result))
                /\ nodePc' = "actLoop"
                /\ UNCHANGED nodeResults
    /\ UNCHANGED <<items, item, agentResult, screenshotPaths, instructions,
                   nodeOutput, nodeError>>
    /\ UNCHANGED cdpVars

\* lines 676-691: after the last instruction, the item's record
ActPush ==
    /\ nodePc = "actLoop"
    /\ Len(actResults) >= Len(instructions)
    /\ nodeResults' =
           Append(nodeResults, ActRecord(items[item + 1], actResults, messages))
    /\ nodePc' = "finally"
    /\ UNCHANGED <<items, item, messages, agentResult, screenshotPaths,
                   instructions, actResults, nodeOutput, nodeError, calls>>
    /\ UNCHANGED cdpVars

\* lines 897-900: finally { await stagehand.close() }, then the next item
Finally ==
    /\ nodePc = "finally"
    /\ calls' = Append(calls, Call("close"))
    /\ \E ok \in BOOLEAN :
           IF ok
           THEN /\ item' = item + 1
                /\ nodePc' = "loop"
                /\ UNCHANGED <<nodeError, nodeOutput>>
           ELSE /\ NodeThrow(Err("Stagehand", "close"))
                /\ UNCHANGED item
    /\ UNCHANGED <<items, nodeResults, messages, agentResult, screenshotPaths,
                   instructions, actResults>>
    /\ UNCHANGED cdpVars

\* line 902: return [results]
NodeReturn ==
    /\ nodePc = "loop"
    /\ item >= Len(items)
    /\ nodeOutput' = <<nodeResults>>
    /\ nodePc' = "returned"
    /\ UNCHANGED <<items, item, nodeResults, messages, agentResult,
                   screenshotPaths, instructions, actResults, nodeError,
                   calls>>
    /\ UNCHANGED cdpVars

NextNode ==
    \/ StartItem
    \/ AgentExecute
    \/ AgentScreenshot
    \/ AgentExtract
    \/ ActInstructions
    \/ ActCall
    \/ ActAwait
    \/ ActPush
    \/ Finally
    \/ NodeReturn

SpecNode == InitNode /\ [][NextNode]_vars

\* ------------------------------------------------------------ the claims

\* the markers of a text, by the pattern's definition and not by the scan:
\* '[', digits, optionally '-' and digits, ']', one space
MarkerAt(t, p, len) ==
    /\ len >= 4
    /\ p + len <= Len(t)
    /\ t[p + 1] = "["
    /\ t[p + len] = " "
    /\ t[p + len - 1] = "]"
    /\ t[p + 2] \in Digits
    /\ t[p + len - 2] \in Digits
    /\ \A k \in (p + 2)..(p + len - 2) : t[k] \in Digits \cup {"-"}
    /\ Cardinality({k \in (p + 2)..(p + len - 2) : t[k] = "-"}) <= 1

WellFormedMarker(s) == MarkerAt(s, 0, Len(s))

\* the (0-based) places of a text where a marker starts
MarkerStarts(t) ==
    {p \in 0..(Len(t) - 1) :
        /\ t[p + 1] = "["
        /\ \E len \in 4..(Len(t) - p) : MarkerAt(t, p, len)}

\* the N+1 pieces of text that the N matches ms cut t into
Segments(t, ms) ==
    [n \in 1..(Len(ms) + 1) |->
        Slice(t,
              IF n = 1 THEN 0 ELSE ms[n - 1].index + Len(ms[n - 1].text),
              IF n = Len(ms) + 1 THEN Len(t) ELSE ms[n].index)]

Done == 1..Len(results)

\* C1: for every item of a run, the k-th marker (0-based) of the output tree
\* reads '[k] ': the markers are '[0] ', ..., '[N-1] ' for the N markers of the
\* fetched tree, whatever their ids were, and the count restarts with each item.
C1_DenseFromZero ==
    \A k \in Done :
        LET orig == MatchAll(fetched[k].tree)
            out == MatchAll(results[k].accessibilityTree)
        IN /\ Len(out) = Len(orig)
           /\ \A n \in 1..Len(out) :
                  out[n].text = <<"[">> \o Decimal(n - 1) \o <<"]", " ">>

C1_Witness ==
    /\ Len(results) = 2
    /\ MatchAll(fetched[1].tree) # <<>>
    /\ LET orig == MatchAll(fetched[2].tree)
       IN /\ Len(orig) = 3
          /\ orig[1].id = <<"1", "2">>
          /\ orig[3].id = <<"5">>
          /\ MatchAll(results[2].accessibilityTree)[1].id = <<"0">>

\* C2: xpaths has one entry per marker, in order, and entry k is what the
\* locator map holds under the original id of marker k, undefined for none;
\* a repeated id gets the same locator at each of its places.
C2_LocatorAlignment ==
    \A k \in Done :
        LET orig == MatchAll(fetched[k].tree)
            map == fetched[k].nodesMap
            xs == results[k].xpaths
        IN /\ Len(xs) = Len(orig)
           /\ \A n \in 1..Len(xs) :
                  xs[n] = IF orig[n].id \in DOMAIN map
                          THEN map[orig[n].id] ELSE Undefined

C2_Witness ==
    /\ Len(results) = 1
    /\ LET orig == MatchAll(fetched[1].tree)
           xs == results[1].xpaths
       IN /\ Len(orig) = 3
          /\ orig[1].id = orig[3].id
          /\ orig[2].id # orig[1].id
          /\ xs[1] # Undefined
          /\ xs[3] = xs[1]
          /\ xs[2] = Undefined

\* C3: the loop changes the markers only.  Cut at their markers, the fetched
\* tree and the output tree give the same pieces of text; and at every pass
\* of the loop the next match, moved by offset, is where that marker stands
\* in the tree as rewritten so far.
C3_TextOutsideMarkersKept ==
    /\ \A k \in Done :
           LET t == fetched[k].tree
               o == results[k].accessibilityTree
               orig == MatchAll(t)
               out == MatchAll(o)
           IN /\ Len(out) = Len(orig)
              /\ Segments(o, out) = Segments(t, orig)
    /\ (pc = "renumber" /\ matches # <<>>) =>
           LET m == Head(matches)
           IN /\ m.index + offset >= 0
              /\ Slice(tree, m.index + offset,
                       m.index + offset + Len(m.text)) = m.text
              /\ SliceFrom(tree, m.index + offset)
                     = SliceFrom(fetched[Len(fetched)].tree, m.index)

C3_Witness ==
    /\ Len(results) = 1
    /\ LET orig == MatchAll(fetched[1].tree)
           out == MatchAll(results[1].accessibilityTree)
       IN /\ Len(out) = Len(orig)
          /\ \E a, b, c \in 1..Len(orig) :
                 /\ a < b
                 /\ b < c
                 /\ Len(out[a].text) < Len(orig[a].text)
                 /\ Len(out[b].text) = Len(orig[b].text)
                 /\ Len(out[c].text) > Len(orig[c].text)

\* C4: what is matched, rewritten and given an xpaths entry is a marker by
\* the pattern's definition, and nothing else: every match is '[', digits,
\* optionally '-' and digits, ']' and one space, standing at the match's
\* place in the fetched tree, and xpaths has as many entries as the tree has
\* such markers.
C4_OnlyMarkersMatch ==
    /\ \A k \in 1..Len(matches) : WellFormedMarker(matches[k].text)
    /\ \A k \in Done :
           LET t == fetched[k].tree
               ms == MatchAll(t)
           IN /\ \A n \in 1..Len(ms) :
                     /\ WellFormedMarker(ms[n].text)
                     /\ Slice(t, ms[n].index, ms[n].index + Len(ms[n].text))
                            = ms[n].text
              /\ Len(results[k].xpaths) = Cardinality(MarkerStarts(t))

C4_Witness ==
    /\ Len(results) = 1
    /\ fetched[1].tree
           = Marker(<<"1", "-", "2", "-", "3">>) \o Marker(<<"5">>) \o <<"[", "5", "]">>
    /\ results[1].accessibilityTree
           = Marker(<<"1", "-", "2", "-", "3">>) \o Marker(<<"0">>) \o <<"[", "5", "]">>
    /\ Len(results[1].xpaths) = 1

\* C5: a fetched tree without a marker, the empty tree among them, comes out
\* unchanged with an empty xpaths: the loop makes no pass and the record is
\* pushed as fetched.
C5_NoMarkersIdentity ==
    /\ \A k \in Done :
           MarkerStarts(fetched[k].tree) = {} =>
               /\ results[k].accessibilityTree = fetched[k].tree
               /\ results[k].xpaths = <<>>
    /\ (pc = "renumber" /\ MarkerStarts(fetched[Len(fetched)].tree) = {}) =>
           /\ matches = <<>>
           /\ tree = fetched[Len(fetched)].tree
           /\ xpaths = <<>>
           /\ error = NoError

C5_Witness ==
    /\ Len(results) = 1
    /\ fetched[1].tree = Marker(<<>>) \o Marker(<<"1", "-">>) \o <<"a">>
    /\ results[1].accessibilityTree = fetched[1].tree
    /\ results[1].xpaths = <<>>

\* C6: renumbering an output tree again, with whatever locator map, gives
\* the same tree and as many xpaths entries as the first run gave.
C6_SecondRunSameTree ==
    \A k \in Done :
        LET o == results[k].accessibilityTree
            out == MatchAll(o)
            byNewIds == [id \in {out[n].id : n \in 1..Len(out)} |-> Selector(id)]
        IN \A map \in {EmptyMap, fetched[k].nodesMap, byNewIds} :
               LET again == Renumber(o, map)
               IN /\ again.tree = o
                  /\ Len(again.xpaths) = Len(results[k].xpaths)

C6_Witness ==
    /\ Len(results) = 1
    /\ Len(results[1].xpaths) = 11
    /\ results[1].accessibilityTree # fetched[1].tree
    /\ Renumber(results[1].accessibilityTree, EmptyMap).tree
           = results[1].accessibilityTree

\* the errors of the library calls that failed for item k
FaultErrors(k) ==
    {Err(f.fn, IF f.call = "tryClose" THEN "close" ELSE f.call) :
        f \in {g \in faults : g.item = k}}

\* C7: a failed fetch of the tree or of the locator map (init, observe or
\* close failing) makes execute fail with that same error, and the item is
\* never renumbered: no record is built from a tree whose fetches failed.
C7_FetchFailurePropagates ==
    \A f \in faults :
        /\ pc = "thrown"
        /\ error \in FaultErrors(f.item)
        /\ f.item = i
        /\ Len(fetched) = f.item
        /\ Len(results) = f.item

\* the ids of a tree's markers
MarkerIds(t) == LET ms == MatchAll(t) IN {ms[n].id : n \in 1..Len(ms)}

\* the items whose locator map is the one getNodesMap's reduce built from one
\* result per proposed element
FullyMapped ==
    {k \in 1..Len(fetched) :
        /\ fetched[k].built
        /\ fetched[k].resolved = ProposedIds(fetched[k].tree)}

C9_AllOrNothing ==
    /\ pc = "returned" =>
           /\ error = NoError
           /\ Len(output) = 1
           /\ Len(output[1]) = nItems
           /\ \A k \in 1..nItems :
                  LET r == Renumber(fetched[k].tree, fetched[k].nodesMap)
                  IN output[1][k] = Record(r.tree, r.xpaths)
    /\ pc = "thrown" => (error # NoError /\ output = NotReturned)
    /\ pc \notin {"returned", "thrown"} => output = NotReturned

C9_Witness ==
    /\ pc = "thrown"
    /\ nItems = 2
    /\ Len(results) = 1
    /\ results[1].xpaths # <<>>
    /\ output = NotReturned

\* the places in calls of item k's calls named name
CallsOf(k, name) ==
    {n \in 1..Len(calls) : calls[n] = [item |-> k, call |-> name]}

\* C10: with Extract After Agent enabled, an agent item whose record was
\* built had stagehand.extract called after its agent.execute, on a
\* discovery run as on a replay run.
C10_ExtractRunsAfterAgent ==
    \A k \in 1..Len(nodeResults) :
        (/\ items[k].operation = "agent"
         /\ items[k].extractAfterAgent
         /\ nodeResults[k].error = NoError) =>
            \E a \in CallsOf(k - 1, "agent.execute"), b \in CallsOf(k - 1, "extract") :
                a < b

\* the actions item k performed, by its record: the agent's actions, or the
\* act calls that returned a result
ActionsPerformed(k) ==
    IF items[k].operation = "agent" THEN nodeResults[k].json.actionCount
    ELSE Len(nodeResults[k].json.results)

\* C11: with Take Screenshots disabled no screenshot is taken for an item;
\* with it enabled, an item whose record was built and that performed some
\* action took one screenshot per action and one more at the end.
C11_ScreenshotPerActionAndFinal ==
    /\ \A k \in 1..Len(items) :
           ~items[k].takeScreenshots => CallsOf(k - 1, "screenshot") = {}
    /\ \A k \in 1..Len(nodeResults) :
           (/\ items[k].takeScreenshots
            /\ nodeResults[k].error = NoError
            /\ ActionsPerformed(k) >= 1) =>
               Cardinality(CallsOf(k - 1, "screenshot")) = ActionsPerformed(k) + 1

\* the lines of an Instructions text, by their places in the text and not by
\* the split: a line starts at the start of the text or after a line feed
LineStarts(raw) == {p \in 1..(Len(raw) + 1) : p = 1 \/ raw[p - 1] = "\n"}

\* the places of the line starting at p that hold no white space
Ink(raw, p) ==
    {m \in p..Len(raw) :
        /\ raw[m] \notin WhiteSpace
        /\ \A n \in p..m : raw[n] # "\n"}

Least(S) == CHOOSE m \in S : \A n \in S : m <= n

Greatest(S) == CHOOSE m \in S : \A n \in S : m >= n

\* the lines that are not blank, without the white space around them, in
\* the order of the text
ExpectedLines(raw) ==
    LET starts == {p \in LineStarts(raw) : Ink(raw, p) # {}}
        RankOf(p) == Cardinality({q \in starts : q <= p})
    IN [n \in 1..Cardinality(starts) |->
           LET p == CHOOSE q \in starts : RankOf(q) = n
           IN SubSeq(raw, Least(Ink(raw, p)), Greatest(Ink(raw, p)))]

\* the act calls of item k and their settlements, in the order they happened
ActEvents(k) ==
    LET IsActEvent(c) == c.item = k /\ c.call \in {"act", "act.settled"}
    IN SelectSeq(calls, IsActEvent)

\* the act calls made for item k
ActCallsOf(k) ==
    LET IsActCall(c) == c.item = k /\ c.call = "act"
    IN SelectSeq(calls, IsActCall)

\* C12: the act calls of an item are made for the trimmed non-blank lines of
\* its Instructions in line order, one at a time: a call is made only when
\* every earlier one has resolved, so after a failed call no later line is
\* executed; the record of an item without an error has one
\* {instruction, result} entry per line, in order, with the result that
\* line's call resolved to.
C12_OneActPerLineInOrder ==
    \A k \in 1..Len(items) :
        items[k].operation = "act" =>
            LET lines == ExpectedLines(items[k].instructions)
                events == ActEvents(k - 1)
                made == ActCallsOf(k - 1)
            IN /\ Len(made) <= Len(lines)
               /\ \A n \in 1..Len(made) : made[n].instruction = lines[n]
               /\ \A n \in 1..Len(events) :
                      IF n % 2 = 1
                      THEN /\ events[n].call = "act"
                           /\ n > 1 => events[n - 1].result # <<"rejected">>
                      ELSE events[n].call = "act.settled"
               /\ (k <= Len(nodeResults) /\ nodeResults[k].error = NoError) =>
                      LET res == nodeResults[k].json.results
                      IN /\ Len(res) = Len(lines)
                         /\ Len(events) = 2 * Len(lines)
                         /\ \A n \in 1..Len(lines) :
                                /\ res[n].instruction = lines[n]
                                /\ res[n].result = events[2 * n].result

\* an act item whose Instructions have blank lines and white space around
\* their two lines has its record: two results, the second for 'b', after
\* two calls one after the other
C12_Witness ==
    /\ nodePc = "finally"
    /\ Len(nodeResults) = 1
    /\ items[1].operation = "act"
    /\ items[1].instructions =
           <<" ", "a", " ", "\n", "\n", "\t", "\n", "b", "\t">>
    /\ nodeResults[1].error = NoError
    /\ Len(nodeResults[1].json.results) = 2
    /\ nodeResults[1].json.results[2].instruction = <<"b">>
    /\ nodeResults[1].json.results[1].result # nodeResults[1].json.results[2].result
    /\ Len(ActCallsOf(0)) = 2

\* the record of the item the loop is at has been pushed by its operation,
\* and messages and agentResult are still that item's
RecordBuilt(operation) ==
    /\ nodePc = "finally"
    /\ Len(nodeResults) = item + 1
    /\ items[item + 1].operation = operation
    /\ nodeResults[item + 1].error = NoError

\* the model tokens the log lines account for: the total_tokens of every
\* line that carries a usage
RECURSIVE TokensLogged(_)
TokensLogged(msgs) ==
    IF msgs = <<>> THEN 0
    ELSE (IF Head(msgs).usage # NoUsage THEN Head(msgs).usage[3] ELSE 0)
             + TokensLogged(Tail(msgs))

\* C13: the cacheHit of the record of an act item that made its act calls is
\* true when the calls used no model token, also when no usage was logged
\* at all, and false when they used some; it is no other value.
C13_ActCacheHitIffNoTokens ==
    (RecordBuilt("act") /\ ActCallsOf(item) # <<>>) =>
        nodeResults[item + 1].json.cacheHit = JsBool(TokensLogged(messages) = 0)

\* an extraction took place for the item the loop is at: the agent's actions
\* include an extract action, or the post-extract call was made and its
\* result, not null, is in the record
ExtractionTookPlace ==
    \/ \E n \in 1..Len(agentResult.actions) :
           agentResult.actions[n].type = "extract"
    \/ /\ CallsOf(item, "extract") # {}
       /\ nodeResults[item + 1].json.extractResult # Absent

\* C14: an agent item's record has success true only if the agent reported
\* success, or Extract After Agent is enabled and an extraction took place.
C14_SuccessOnlyIfAgentOrExtraction ==
    (RecordBuilt("agent") /\ nodeResults[item + 1].json.success) =>
        \/ agentResult.success
        \/ items[item + 1].extractAfterAgent /\ ExtractionTookPlace

====
